---- MODULE Spec2Model ----
(***************************************************************************)
(* Model of the polls application views (polls/views.py): the index,       *)
(* detail and results views over the Question/Choice store, and the vote   *)
(* handler with its two store round trips (SELECT question, UPDATE votes). *)
(* `requests` is the log of the requests received, each with the locals of *)
(* its handler and, once it has ended, its response.                       *)
(* A Question's identifier is its index in `questions`, a Choice's its     *)
(* index in `choices` (system-assigned, increasing primary keys).          *)
(***************************************************************************)
EXTENDS Integers, Sequences, FiniteSets, TLC

VARIABLES questions, choices, requests

vars == <<questions, choices, requests>>

\* ---------------------------------------------------------------- bounds
MaxQuestions == 2
MaxChoices == 3
MaxReq == 2
ViewQuestions == 6

\* publication timestamps the stores are drawn from, and the values
\* timezone.now() may return to a request: the views only compare a
\* pub_date with it, and the dates lie before, at and after it
Dates == {0, 1, 2}
Times == {1}

\* ------------------------------------------------------ program constants
\* the slice [:5] of the index queryset
ListLimit == 5

\* votes of a Choice created without an explicit value
DefaultVotes == 0

\* ------------------------------------------------------------ the store
QuestionIds == DOMAIN questions
ChoiceIds == DOMAIN choices

\* Question.objects.create(question_text=..., pub_date=time)
create_question(time) == [pub_date |-> time]

\* Choice.objects.create(question=question, choice_text=...)
create_choice(question) == [question |-> question, votes |-> DefaultVotes]

\* ---------------------------------------------------- queryset operators
\* pub_date__lte=timezone.now()  (pub_date__lt: the strict comparison)
pub_date__lt(q, t) == questions[q].pub_date < t
pub_date__lte(q, t) == questions[q].pub_date <= t

\* question.choice_set: the Choices whose foreign key is the question
choice_set(q) == {c \in ChoiceIds : choices[c].question = q}

\* choice=None: the Questions with no related Choice
choice_isnull == {q \in QuestionIds : choice_set(q) = {}}

\* Question.objects.filter(pub_date__lte=now).exclude(choice=None)
filter_exclude(t) == {q \in QuestionIds : pub_date__lte(q, t)} \ choice_isnull

\* order_by('-pub_date'): q may be placed before p  (pub_date_asc: the
\* ascending order of order_by('pub_date'))
pub_date_asc(q, p) == questions[q].pub_date <= questions[p].pub_date
pub_date_desc(q, p) == questions[q].pub_date >= questions[p].pub_date

\* order_by(...)[:limit]: every sequence the store may return for the rows,
\* rows of equal pub_date in any relative order (no further sort key given)
RECURSIVE order_by_slice(_, _)
order_by_slice(rows, limit) ==
    IF rows = {} \/ limit = 0 THEN {<<>>}
    ELSE LET heads == {q \in rows : \A p \in rows : pub_date_desc(q, p)}
         IN  UNION {{<<q>> \o rest : rest \in order_by_slice(rows \ {q}, limit - 1)}
                    : q \in heads}

\* --------------------------------------------------------------- views
\* the attributes a QuerySet offers to the chained calls of the views
QuerySetAttrs == {"filter", "exclude", "order_by", "update", "get"}

\* the result of building a queryset: its rows, or the exception raised
Rows(rows) == [error |-> "none", rows |-> rows]
Raised(exception) == [error |-> exception, rows |-> {}]

\* qs.<name>(...): AttributeError when the QuerySet has no such attribute
call_attr(name, result) ==
    IF name \in QuerySetAttrs THEN result ELSE Raised("AttributeError")

\* IndexView.get_queryset  (IndexView_unsliced: without the slice)
IndexView_unsliced(t) == order_by_slice(filter_exclude(t), Len(questions))
IndexView_get_queryset(t) == order_by_slice(filter_exclude(t), ListLimit)

\* DetailView.get_queryset
DetailView_get_queryset(t) == call_attr("exclude", Rows(filter_exclude(t)))

\* ResultsView.get_queryset
ResultsView_get_queryset(t) == call_attr("exclue", Rows(filter_exclude(t)))

\* a request of the log: the view, the identifier in its URL, its form, the
\* handler's position and locals, and the response (status 0: none yet)
Request(view, pk, post, pc, t, status, body) ==
    [view |-> view, question_id |-> pk, POST |-> post, pc |-> pc, now |-> t,
     status |-> status, body |-> body,
     question |-> 0, pk |-> 0, rows |-> 0, location |-> 0]

\* generic.DetailView.get over the view's queryset: the object with the
\* primary key, a 404 when the queryset holds none, a 500 when building the
\* queryset raised
detail_response(view, qs, pk, t) ==
    IF qs.error # "none"
    THEN Request(view, pk, {}, "Responded", t, 500, <<>>)
    ELSE IF pk \in qs.rows
    THEN Request(view, pk, {}, "Responded", t, 200, <<pk>>)
    ELSE Request(view, pk, {}, "Responded", t, 404, <<>>)

\* identifiers a request may name: every existing one and one that is absent
RequestPks == 1..(Len(questions) + 1)

\* GET /polls/
IndexRequest(cap) ==
    /\ Len(requests) < cap
    /\ \E t \in Times : \E latest_question_list \in IndexView_get_queryset(t) :
          requests' = Append(requests,
              Request("index", 0, {}, "Responded", t, 200, latest_question_list))
    /\ UNCHANGED <<questions, choices>>

\* GET /polls/{pk}/
DetailRequest(cap, pk) ==
    /\ Len(requests) < cap
    /\ \E t \in Times :
          requests' = Append(requests,
              detail_response("detail", DetailView_get_queryset(t), pk, t))
    /\ UNCHANGED <<questions, choices>>

\* GET /polls/{pk}/results/
ResultsRequest(cap, pk) ==
    /\ Len(requests) < cap
    /\ \E t \in Times :
          requests' = Append(requests,
              detail_response("results", ResultsView_get_queryset(t), pk, t))
    /\ UNCHANGED <<questions, choices>>

\* ---------------------------------------------------------------- vote
\* the decimal strings of the primary keys, as they arrive in a form field
Digits == <<"1", "2", "3", "4", "5", "6", "7", "8", "9">>

\* the values the 'choice' field may carry: every existing key, one absent
\* key, and a string that is no number
ChoiceFieldValues == {Digits[i] : i \in 1..(Len(choices) + 1)} \cup {"abc"}

\* request.POST: a set of <<field, value>> pairs, without or with 'choice'
PostForms == {{}} \cup {{<<"choice", v>>} : v \in ChoiceFieldValues}

\* request.POST['choice'] raises KeyError when the field is missing
HasKey(post, key) == \E f \in post : f[1] = key
PostValue(post, key) == (CHOOSE f \in post : f[1] = key)[2]

\* filter(pk=value) converts the value with int(): ValueError when it is no number
IsInt(value) == \E i \in DOMAIN Digits : Digits[i] = value
ToInt(value) == CHOOSE i \in DOMAIN Digits : Digits[i] = value

\* get_object_or_404(Question, pk=question_id)  (get_object_visible: a
\* lookup in the queryset of the detail view instead)
get_object_visible(pk) == \E t \in Times : pk \in filter_exclude(t)
get_object(pk) == pk \in QuestionIds

\* question.choice_set.filter(pk=...): the rows the lazy queryset selects
\* when it is run  (selected_whole_set: without the filter on pk;
\* selected_any_question: Choice.objects in place of question.choice_set)
selected_whole_set(question, pk) == choice_set(question)
selected_any_question(question, pk) == {c \in ChoiceIds : c = pk}
selected_choice(question, pk) == {c \in choice_set(question) : c = pk}

\* F('votes') + 1, evaluated by the store on the row being updated
\* (F_votes_stale: a value computed from a copy read before the update)
F_votes_stale(row) == DefaultVotes + 1
F_votes_plus_1(row) == row.votes + 1

\* POST /polls/{question_id}/vote/ arrives
VoteRequest(question_id, post) ==
    /\ Len(requests) < MaxReq
    /\ requests' = Append(requests,
          Request("vote", question_id, post, "Received", 0, 0, <<>>))
    /\ UNCHANGED <<questions, choices>>

\* line 52: the question is looked up, Http404 when there is none
vote_get_object_or_404(r) ==
    /\ requests[r].pc = "Received"
    /\ LET req == requests[r]
       IN  requests' = [requests EXCEPT ![r] =
              IF get_object(req.question_id)
              THEN [req EXCEPT !.pc = "QuestionResolved",
                               !.question = req.question_id]
              ELSE [req EXCEPT !.pc = "NotFound", !.status = 404]]
    /\ UNCHANGED <<questions, choices>>

\* lines 53-59: the lazy queryset is built; KeyError is caught and the detail
\* page is rendered again with the question, ValueError is not caught
vote_filter(r) ==
    /\ requests[r].pc = "QuestionResolved"
    /\ LET req == requests[r]
       IN  requests' = [requests EXCEPT ![r] =
              IF ~HasKey(req.POST, "choice")
              THEN [req EXCEPT !.pc = "ErrorRendered", !.status = 200,
                               !.body = <<req.question>>]
              ELSE IF ~IsInt(PostValue(req.POST, "choice"))
              THEN [req EXCEPT !.pc = "ServerError", !.status = 500]
              ELSE [req EXCEPT !.pc = "ChoiceSelected",
                               !.pk = ToInt(PostValue(req.POST, "choice"))]]
    /\ UNCHANGED <<questions, choices>>

\* line 61: one UPDATE statement over the selected rows
vote_update(r) ==
    /\ requests[r].pc = "ChoiceSelected"
    /\ LET selected == selected_choice(requests[r].question, requests[r].pk)
       IN  /\ choices' = [c \in ChoiceIds |->
                 IF c \in selected
                 THEN [choices[c] EXCEPT !.votes = F_votes_plus_1(choices[c])]
                 ELSE choices[c]]
           /\ requests' = [requests EXCEPT ![r] =
                 [requests[r] EXCEPT !.pc = "Updated",
                                     !.rows = Cardinality(selected)]]
    /\ UNCHANGED questions

\* line 62: redirect to polls:results of question.id
vote_redirect(r) ==
    /\ requests[r].pc = "Updated"
    /\ requests' = [requests EXCEPT ![r] =
          [requests[r] EXCEPT !.pc = "Redirect", !.status = 302,
                              !.location = requests[r].question]]
    /\ UNCHANGED <<questions, choices>>

\* ------------------------------------------------------- specifications
\* stores as the test helpers build them: up to maxq questions, and choices
\* of them in any creation order
QuestionTables(maxq) ==
    UNION {[1..n -> {create_question(d) : d \in Dates}] : n \in 0..maxq}
ChoiceTables(n, maxc) ==
    UNION {[1..m -> {create_choice(q) : q \in 1..n}] : m \in 0..maxc}

\* the choices of a store in which question q has has[q] choices, created
\* question by question
RECURSIVE ChoicesInOrder(_, _)
ChoicesInOrder(has, n) ==
    IF n = 0 THEN <<>>
    ELSE ChoicesInOrder(has, n - 1) \o [i \in 1..has[n] |-> create_choice(n)]

Init ==
    /\ questions \in QuestionTables(MaxQuestions)
    /\ choices \in ChoiceTables(Len(questions), MaxChoices)
    /\ requests = <<>>

Next ==
    \/ IndexRequest(MaxReq)
    \/ \E pk \in RequestPks : DetailRequest(MaxReq, pk)
    \/ \E pk \in RequestPks : ResultsRequest(MaxReq, pk)
    \/ \E question_id \in RequestPks, post \in PostForms :
          VoteRequest(question_id, post)
    \/ \E r \in DOMAIN requests : vote_get_object_or_404(r)
    \/ \E r \in DOMAIN requests : vote_filter(r)
    \/ \E r \in DOMAIN requests : vote_update(r)
    \/ \E r \in DOMAIN requests : vote_redirect(r)

Spec == Init /\ [][Next]_vars

\* the index page over larger stores: up to ViewQuestions questions, each
\* with or without a choice; one request per behaviour
InitViews ==
    /\ questions \in QuestionTables(ViewQuestions)
    /\ \E has \in [1..Len(questions) -> {0, 1}] :
          choices = ChoicesInOrder(has, Len(questions))
    /\ requests = <<>>

NextViews == IndexRequest(1)

SpecViews == InitViews /\ [][NextViews]_vars

\* ---------------------------------------------------------- properties
\* visible(Q) = (Q.pub_date <= now) AND (Q has at least one Choice)
Visible(q, t) ==
    /\ q \in QuestionIds
    /\ questions[q].pub_date <= t
    /\ \E c \in ChoiceIds : choices[c].question = q
VisibleQuestions(t) == {q \in QuestionIds : Visible(q, t)}

Min(a, b) == IF a < b THEN a ELSE b
Range(seq) == {seq[i] : i \in DOMAIN seq}

Logged(view) == {r \in DOMAIN requests : requests[r].view = view}
VoteSteps == {"Received", "QuestionResolved", "ChoiceSelected", "Updated"}

\* the form of a vote request names no Choice of the addressed Question:
\* the field is missing, is no number, or is the key of no Choice of it
InvalidChoice(req) ==
    \/ ~\E f \in req.POST : f[1] = "choice"
    \/ \A f \in req.POST : f[1] = "choice" =>
          ~\E c \in ChoiceIds : /\ Digits[c] = f[2]
                                /\ choices[c].question = req.question_id

\* C1: every index response is the min(5, number of visible questions) most
\* recently published visible Questions, newest first: at most 5 items, each
\* visible at the time the request read, none twice, no visible Question left
\* out that is newer than a listed one, and empty when none is visible.
C1_IndexListsLatestVisible ==
    \A r \in Logged("index") :
        LET body == requests[r].body
            visible == VisibleQuestions(requests[r].now)
            listed == Range(body)
        IN  /\ requests[r].status = 200
            /\ Len(body) = Min(ListLimit, Cardinality(visible))
            /\ Len(body) <= ListLimit
            /\ listed \subseteq visible
            /\ Cardinality(listed) = Len(body)
            /\ \A i \in 1..(Len(body) - 1) :
                  questions[body[i]].pub_date >= questions[body[i + 1]].pub_date
            /\ \A q \in visible \ listed : \A p \in listed :
                  questions[q].pub_date <= questions[p].pub_date
            /\ (visible = {} => body = <<>>)

\* an index response cut at the limit: more than 5 Questions were visible
C1_Witness ==
    \E r \in Logged("index") :
        /\ Len(requests[r].body) = ListLimit
        /\ Cardinality(VisibleQuestions(requests[r].now)) > ListLimit
        /\ \E i, j \in DOMAIN requests[r].body :
              questions[requests[r].body[i]].pub_date
                  > questions[requests[r].body[j]].pub_date

\* C2: a detail response is 200 with the Question exactly when a Question
\* with the identifier exists, is published by the time the request read and
\* has a Choice; otherwise it is 404, never another status.
C2_DetailVisibleOr404 ==
    \A r \in Logged("detail") :
        LET req == requests[r]
        IN  IF Visible(req.question_id, req.now)
            THEN req.status = 200 /\ req.body = <<req.question_id>>
            ELSE req.status = 404 /\ req.body = <<>>

\* a 200 for a Question published exactly at the time read, and a 404 for an
\* existing Question that has a Choice but is not published yet
C2_Witness ==
    /\ \E r \in Logged("detail") :
          /\ requests[r].status = 200
          /\ questions[requests[r].question_id].pub_date = requests[r].now
    /\ \E r \in Logged("detail") :
          /\ requests[r].status = 404
          /\ requests[r].question_id \in QuestionIds
          /\ choice_set(requests[r].question_id) # {}

\* C3: a results response is 200 when the Question is visible and 404
\* otherwise, never another status (the rule of the detail view).
C3_ResultsVisibleOr404 ==
    \A r \in Logged("results") :
        LET req == requests[r]
        IN  /\ req.status \in {200, 404}
            /\ req.status = 200 <=> Visible(req.question_id, req.now)

\* C4: the counter of every Choice is its initial value plus the number of
\* vote requests whose update for that Choice has been run, whatever the
\* interleaving of the requests: no increment is lost.
C4_NoLostIncrement ==
    \A c \in ChoiceIds :
        choices[c].votes = DefaultVotes + Cardinality(
            {r \in Logged("vote") :
                /\ requests[r].pc \in {"Updated", "Redirect"}
                /\ ~InvalidChoice(requests[r])
                /\ requests[r].POST = {<<"choice", Digits[c]>>}})

\* two requests have voted for the same Choice, one of them still to redirect
C4_Witness ==
    \E r1, r2 \in Logged("vote") :
        /\ r1 # r2
        /\ requests[r1].POST = requests[r2].POST
        /\ requests[r1].question_id = requests[r2].question_id
        /\ ~InvalidChoice(requests[r1])
        /\ requests[r1].pc = "Redirect"
        /\ requests[r2].pc = "Updated"
        /\ \E c \in ChoiceIds : choices[c].votes = DefaultVotes + 2

\* C5: a vote request on an existing Question whose Choice field is missing,
\* malformed or names no Choice of the Question ends by rendering the detail
\* page of the Question again with status 200: it does not redirect and
\* ends in no 404 or server error.
C5_InvalidChoiceRendersError ==
    \A r \in Logged("vote") :
        LET req == requests[r]
        IN  (/\ req.question_id \in QuestionIds
             /\ InvalidChoice(req)
             /\ req.pc \notin VoteSteps)
            => /\ req.pc = "ErrorRendered"
               /\ req.status = 200
               /\ req.body = <<req.question_id>>

\* C6: a step of a vote request whose Choice field is missing or names no
\* Choice of the addressed Question, or a step that ends a vote request in
\* Not-Found, leaves every Choice's counter unchanged.
C6_InvalidVoteChangesNoCounter ==
    [][\A r \in Logged("vote") :
          (/\ requests'[r] # requests[r]
           /\ \/ InvalidChoice(requests[r])
              \/ requests'[r].pc = "NotFound")
          => choices' = choices]_vars

\* the update of a request naming a Choice of another Question has been run
\* and one without the field has ended, with every counter as it started
C6_Witness ==
    /\ \E r \in Logged("vote") :
          /\ requests[r].pc \in {"Updated", "Redirect"}
          /\ requests[r].pk \in ChoiceIds
          /\ choices[requests[r].pk].question # requests[r].question
    /\ \E r \in Logged("vote") :
          /\ requests[r].pc = "ErrorRendered"
          /\ requests[r].POST = {}
    /\ \A c \in ChoiceIds : choices[c].votes = DefaultVotes

\* C7: a vote request ends in Not-Found exactly when no Question has the
\* identifier, whether or not the Question is visible; and the update of a
\* request naming a Choice of an existing Question, future-dated or not,
\* matches that one row and has incremented it.
C7_VoteIgnoresVisibility ==
    \A r \in Logged("vote") :
        LET req == requests[r]
        IN  /\ req.pc # "Received" =>
                  (req.pc = "NotFound" <=> req.question_id \notin QuestionIds)
            /\ (req.pc = "NotFound") = (req.status = 404)
            /\ (req.pc \in {"Updated", "Redirect"} /\ ~InvalidChoice(req)) =>
                  /\ req.rows = 1
                  /\ choices[req.pk].question = req.question_id
                  /\ choices[req.pk].votes > DefaultVotes

\* a vote on a Question published later than any time a request may read
\* has been redirected after incrementing the Choice
C7_Witness ==
    \E r \in Logged("vote") :
        /\ requests[r].pc = "Redirect"
        /\ requests[r].rows = 1
        /\ \A t \in Times : questions[requests[r].question_id].pub_date > t
        /\ choices[requests[r].pk].votes = DefaultVotes + 1

\* C8 as stated: Questions of equal publication time are listed by
\* identifier descending.
C8_TiesByIdentifierDescending ==
    \A r \in Logged("index") :
        LET body == requests[r].body
        IN  \A i, j \in DOMAIN body :
                (i < j /\ questions[body[i]].pub_date = questions[body[j]].pub_date)
                => body[i] > body[j]

\* C8 as amended: the list is ordered by publication time descending alone.
\* Whatever order the store gives Questions of equal publication time, the
\* publication time listed at each position is fixed by the store and the
\* time read: fewer visible Questions than the position are newer than it,
\* and at least as many are as new.
C8_OrderedByPubDateOnly ==
    \A r \in Logged("index") :
        LET body == requests[r].body
            visible == VisibleQuestions(requests[r].now)
            Newer(d) == Cardinality({q \in visible : questions[q].pub_date > d})
            AsNew(d) == Cardinality({q \in visible : questions[q].pub_date >= d})
        IN  /\ \A i \in 1..(Len(body) - 1) :
                  questions[body[i]].pub_date >= questions[body[i + 1]].pub_date
            /\ \A i \in DOMAIN body :
                  /\ Newer(questions[body[i]].pub_date) < i
                  /\ AsNew(questions[body[i]].pub_date) >= i

\* two Questions of equal publication time listed by identifier ascending
C8_Witness ==
    \E r \in Logged("index") :
        LET body == requests[r].body
        IN  \E i, j \in DOMAIN body :
                /\ i < j
                /\ questions[body[i]].pub_date = questions[body[j]].pub_date
                /\ body[i] < body[j]

\* C9: a vote request is in a state of Received -> {QuestionResolved |
\* NotFound} -> {ChoiceValid -> Incremented -> Redirect | ChoiceInvalid ->
\* ErrorRendered} and ends in NotFound, Redirect or ErrorRendered; one whose
\* update has been run, redirected already or not, has incremented the
\* counter of exactly one Choice of its Question, and the redirect names the
\* Question of the request.
C9_VoteStateMachine ==
    \A r \in Logged("vote") :
        LET req == requests[r]
        IN  /\ req.pc \in VoteSteps \cup {"NotFound", "Redirect", "ErrorRendered"}
            /\ req.pc \in {"Updated", "Redirect"} =>
                  /\ req.rows = 1
                  /\ ~InvalidChoice(req)
            /\ req.pc = "Redirect" =>
                  req.status = 302 /\ req.location = req.question_id

\* C10: every step leaves the Question records, the set of Choices and each
\* Choice's Question unchanged and lowers no counter below its value or
\* below zero; the store changes only in the update step of a vote request,
\* which raises the counter of the Choice it names by exactly 1 and no
\* other; and the set of visible Questions at any time is the same after
\* the step.
C10_OnlyVotesIncrementOneCounter ==
    [][/\ questions' = questions
       /\ DOMAIN choices' = DOMAIN choices
       /\ \A c \in ChoiceIds :
             /\ choices'[c].question = choices[c].question
             /\ choices'[c].votes >= choices[c].votes
             /\ choices[c].votes >= 0
       /\ choices' # choices =>
             \E r \in Logged("vote") :
                 /\ requests[r].pc = "ChoiceSelected"
                 /\ requests'[r].pc = "Updated"
                 /\ ~InvalidChoice(requests[r])
       /\ \A r \in Logged("vote") :
             (/\ requests[r].pc = "ChoiceSelected"
              /\ requests'[r].pc = "Updated"
              /\ ~InvalidChoice(requests[r]))
             => \A c \in ChoiceIds :
                   choices'[c].votes =
                       IF requests[r].POST = {<<"choice", Digits[c]>>}
                       THEN choices[c].votes + 1 ELSE choices[c].votes
       /\ \A t \in Times :
             {q \in DOMAIN questions' :
                 /\ questions'[q].pub_date <= t
                 /\ \E c \in DOMAIN choices' : choices'[c].question = q}
             = VisibleQuestions(t)]_vars

\* after an index response, a vote has raised one of the two Choices of a
\* Question and left the other as it started
C10_Witness ==
    /\ Logged("index") # {}
    /\ \E r \in Logged("vote") :
          /\ requests[r].pc = "Redirect"
          /\ requests[r].rows = 1
          /\ \E c, d \in choice_set(requests[r].question) :
                /\ choices[c].votes = DefaultVotes + 1
                /\ choices[d].votes = DefaultVotes

====
